---- MODULE Spec2Model ----
(***************************************************************************)
(* A model of the multistr crate: the growable packed vector Dynamic<T>    *)
(* (src/src/vec.rs), the fixed-arity packed arrays StaticN<T>              *)
(* (src/src/array.rs), the offset-index algebra Split / SplitRange         *)
(* (src/src/split.rs) and the segment kinds of src/src/strlike.rs.         *)
(*                                                                         *)
(* A container is a record [buffer, split]: buffer is the sequence of raw  *)
(* data units, split the table of cumulative end offsets.  Offsets and     *)
(* indices are 0-based as in the source; TLA+ sequences are 1-based, so    *)
(* the Rust expression v[i] is written v[i + 1].                           *)
(*                                                                         *)
(* Capacities (num_capacity, data_capacity) and the Cow borrowed/owned tag *)
(* are not part of the model: no operation reads them back into contents.  *)
(***************************************************************************)
EXTENDS Integers, Sequences, FiniteSets, TLC

\* ------------------------------------------------------------------ bounds
\* Most segments a vector holds in the state machine.
MaxSegs == 2
\* Most raw units the buffer of a vector holds in the state machine.
MaxBuf == 2
\* Most segments and raw units of vec in the lockstep runs against the
\* reference list.
MaxRefSegs == 3
MaxRefBuf == 4
\* Largest arity of the fixed arrays that is explored (Static2 .. Static16).
MaxN == 3
\* Longest list handed to collect / extend.
MaxList == 3
\* Largest offset of the raw tables and longest raw buffer handed to
\* check_valid and from_raw.
MaxOff == 3
MaxRaw == 3

\* ------------------------------------------------------------ segment kinds
\* The three implementations of StrLike: [T], str and CStr.
Kinds == {"slice", "str", "cstr"}

\* unsafe impl DataConcat for str, [T]  (not for CStr).
DataConcat == {"slice", "str"}

\* The typed segments (&T) the operations are fed: slices of u8 elements,
\* strs over the code points 'a' (one byte in UTF-8) and U+00E9 (two bytes),
\* and CStrs, given by their bytes before the NUL.
Segs(k) ==
  CASE k = "slice" -> {<<>>, <<1>>, <<2>>, <<2, 1>>}
    [] k = "str"   -> {<<>>, <<97>>, <<233>>}
    [] k = "cstr"  -> {<<>>, <<1>>}

SeqsUpTo(S, n) == UNION {[1..m -> S] : m \in 0..n}

RECURSIVE Flatten(_)
Flatten(ss) == IF ss = <<>> THEN <<>> ELSE Head(ss) \o Flatten(Tail(ss))

\* char::encode_utf8 for the code points below U+0800.
EncodeUtf8(cp) == IF cp < 128 THEN <<cp>> ELSE <<192 + (cp \div 64), 128 + (cp % 64)>>

\* StrLike::to_data: the raw data of a typed segment.
\*   [T]:  self                      str:  self.as_bytes()
\*   CStr: self.to_bytes_with_nul()
to_data(k, t) ==
  CASE k = "slice" -> t
    [] k = "str"   -> Flatten([i \in 1..Len(t) |-> EncodeUtf8(t[i])])
    [] k = "cstr"  -> Append(t, 0)

\* Len::len of the typed segment (len_trait): the number of elements of a
\* slice, the number of bytes of a str, and to_bytes().len() of a CStr, which
\* leaves the terminating NUL out.
str_len(k, t) == IF k = "cstr" THEN Len(t) ELSE Len(to_data(k, t))

\* ------------------------------------------------------- std Vec / slices
\* Option<X>: None is <<>>, Some(x) is <<x>>.
None == <<>>
Some(x) == <<x>>

\* The outcome of an expression that may panic.
Ok(x) == [panic |-> FALSE, val |-> x]
Panicked == [panic |-> TRUE, val |-> <<>>]

Last(s) == s[Len(s)]
Front(s) == SubSeq(s, 1, Len(s) - 1)

\* Vec::truncate: no effect when n is not below the length.
VecTruncate(s, n) == IF n < Len(s) THEN SubSeq(s, 1, n) ELSE s

\* &buffer[start..end]: panics when start > end or end > len.
SliceRange(s, start, end) ==
  IF start > end \/ end > Len(s) THEN Panicked ELSE Ok(SubSeq(s, start + 1, end))

\* &buffer[start..]: panics when start > len.
SliceFrom(s, start) ==
  IF start > Len(s) THEN Panicked ELSE Ok(SubSeq(s, start + 1, Len(s)))

\* ------------------------------------------------------------------- Split
\* SplitRange { start, end: Option<usize> } and its From conversions.
SplitRange(start, end) == [start |-> start, end |-> end]
FromRange(lo, hi) == SplitRange(lo, Some(hi))
FromRangeTo(hi) == SplitRange(0, Some(hi))
FromRangeFrom(lo) == SplitRange(lo, None)
FromRangeFull == SplitRange(0, None)

\* Split::get_idx: *self.inner.get_unchecked(idx).
get_idx(split, idx) == split[idx + 1]

\* Split::get: the position of the idx-th item.  With idx = n = 0 the source
\* evaluates idx - 1 on a usize; no caller reaches that case (every caller
\* first establishes idx < n), it is modelled as the panic of a checked build.
get(split, idx) ==
  LET n == Len(split) IN
  IF idx > n THEN Panicked
  ELSE IF idx = n THEN
    (IF n = 0 THEN Panicked ELSE Ok(FromRangeFrom(get_idx(split, idx - 1))))
  ELSE IF idx = 0 THEN Ok(FromRangeTo(get_idx(split, 0)))
  ELSE Ok(FromRange(get_idx(split, idx - 1), get_idx(split, idx)))

\* get_slice with an end bound above the count read as the open end.
get_slice_end_clamped(split, range) ==
  LET n == Len(split)
      start == IF range.start = 0 THEN 0 ELSE get_idx(split, range.start - 1)
      end == IF range.end = None THEN None
             ELSE IF range.end[1] = 0 THEN Some(0)
             ELSE IF range.end[1] >= n THEN None
             ELSE Some(get_idx(split, range.end[1] - 1))
  IN
  IF range.start # 0 /\ range.start > n THEN Panicked
  ELSE IF end # None /\ ~(start <= end[1]) THEN Panicked
  ELSE Ok(SplitRange(start, end))

\* get_slice reading the start offset one entry too far (get_idx(start)
\* instead of get_idx(start - 1)).
get_slice_start_off_by_one(split, range) ==
  LET n == Len(split)
      start == IF range.start = 0 THEN 0
               ELSE IF range.start < n THEN get_idx(split, range.start)
               ELSE get_idx(split, n - 1)
      end == IF range.end = None THEN None
             ELSE IF range.end[1] = 0 THEN Some(0)
             ELSE IF range.end[1] = n THEN None
             ELSE Some(get_idx(split, range.end[1] - 1))
  IN
  IF range.start > n THEN Panicked
  ELSE IF range.end # None /\ range.end[1] > n THEN Panicked
  ELSE IF end # None /\ ~(start <= end[1]) THEN Panicked
  ELSE Ok(SplitRange(start, end))

\* Split::get_slice: the range of positions for a range of items.
get_slice(split, range) ==
  LET n == Len(split)
      startOob == range.start # 0 /\ range.start > n
      start == IF range.start = 0 THEN 0 ELSE get_idx(split, range.start - 1)
      endOob == range.end # None /\ range.end[1] # 0 /\ range.end[1] > n
      end == IF range.end = None THEN None
             ELSE IF range.end[1] = 0 THEN Some(0)
             ELSE IF range.end[1] = n THEN None
             ELSE Some(get_idx(split, range.end[1] - 1))
  IN
  IF startOob THEN Panicked
  ELSE IF endOob THEN Panicked
  ELSE IF end # None /\ ~(start <= end[1]) THEN Panicked
  ELSE Ok(SplitRange(start, end))

\* SplitRange::index_into: index into a buffer with this range.
index_into(range, buffer) ==
  IF range.end # None THEN SliceRange(buffer, range.start, range.end[1])
  ELSE SliceFrom(buffer, range.start)

\* ----------------------------------------------------------------- Dynamic
\* struct Dynamic { buffer, split }.
Dynamic(buffer, split) == [buffer |-> buffer, split |-> split]

\* Dynamic::new.
new == Dynamic(<<>>, <<>>)

\* Dynamic::len.
len(v) == Len(v.split)

\* The outcome of an operation on self: the vector as the operation leaves
\* it (also when it panics part-way), its return value, whether it panicked.
Res(v, ret, panic) == [vec |-> v, ret |-> ret, panic |-> panic]

\* push recording the length of the segment instead of the cumulative end
\* offset.
push_segment_len(k, v, t) ==
  LET data == to_data(k, t)
  IN Res(Dynamic(v.buffer \o data, Append(v.split, Len(data))), None, FALSE)

\* Dynamic::push.
push(k, v, t) ==
  LET data == to_data(k, t)
      split == (IF v.split = <<>> THEN 0 ELSE Last(v.split)) + Len(data)
  IN Res(Dynamic(v.buffer \o data, Append(v.split, split)), None, FALSE)

\* pop testing for emptiness after the removal instead of before it.
pop_tests_after(v) ==
  IF v.split = <<>> THEN Res(v, FALSE, FALSE)
  ELSE LET idx == Last(v.split)
       IN Res(Dynamic(VecTruncate(v.buffer, idx), Front(v.split)),
              Front(v.split) # <<>>, FALSE)

\* Dynamic::pop.
pop(v) ==
  IF v.split = <<>> THEN Res(v, FALSE, FALSE)
  ELSE LET idx == Last(v.split)
       IN Res(Dynamic(VecTruncate(v.buffer, idx), Front(v.split)), TRUE, FALSE)

\* pop_off cutting at the offset it removed, as pop does, instead of at the
\* new last offset.
pop_off_removed_idx(v) ==
  IF v.split = <<>> THEN Res(v, None, FALSE)
  ELSE LET idx == Last(v.split)
           tail == SliceFrom(v.buffer, idx)
       IN IF tail.panic THEN Res(Dynamic(v.buffer, Front(v.split)), None, TRUE)
          ELSE Res(Dynamic(VecTruncate(v.buffer, idx), Front(v.split)),
                   Some(tail.val), FALSE)

\* Dynamic::pop_off.
pop_off(v) ==
  IF v.split = <<>> THEN Res(v, None, FALSE)
  ELSE LET split == Front(v.split)
           idx == IF split = <<>> THEN 0 ELSE Last(split)
           tail == SliceFrom(v.buffer, idx)
       IN IF tail.panic THEN Res(Dynamic(v.buffer, split), None, TRUE)
          ELSE Res(Dynamic(VecTruncate(v.buffer, idx), split), Some(tail.val), FALSE)

\* Dynamic::truncate.
truncate(v, n) ==
  IF n >= Len(v.split) THEN Res(v, None, TRUE)
  ELSE Res(Dynamic(VecTruncate(v.buffer, v.split[n + 1]), VecTruncate(v.split, n)),
           None, FALSE)

\* Dynamic::clear.
clear(v) == Res(Dynamic(<<>>, <<>>), None, FALSE)

\* Dynamic::reserve: capacity only.
reserve(v) == Res(v, None, FALSE)

\* Dynamic::reserve_exact: capacity only.
reserve_exact(v) == Res(v, None, FALSE)

\* Dynamic::shrink_to_fit: capacity only.
shrink_to_fit(v) == Res(v, None, FALSE)

\* The outcome of an operation on self and other.
Res2(v, o, panic) == [vec |-> v, other |-> o, panic |-> panic]

\* append that leaves the offsets of other as they are.
append_unshifted(v, o) ==
  Res2(Dynamic(v.buffer \o o.buffer, v.split \o o.split), Dynamic(<<>>, <<>>), FALSE)

\* Dynamic::append.
append(v, o) ==
  LET shifted == IF v.split = <<>> THEN o.split
                 ELSE [i \in 1..Len(o.split) |-> o.split[i] + Last(v.split)]
  IN Res2(Dynamic(v.buffer \o o.buffer, v.split \o shifted), Dynamic(<<>>, <<>>), FALSE)

\* Dynamic::split_off; other is the vector returned.  The rebasing subtracts
\* usizes: were a tail offset below the last head offset it would panic in a
\* checked build (no reachable table is decreasing, so it never is).  The
\* buffer is split at `at`, the segment index, as the source has it.
split_off(v, at) ==
  IF at > Len(v.split) THEN Res2(v, new, TRUE)
  ELSE LET head == SubSeq(v.split, 1, at)
           tail == SubSeq(v.split, at + 1, Len(v.split))
           underflow == head # <<>> /\ \E i \in 1..Len(tail) : tail[i] < Last(head)
           new_split == IF head = <<>> THEN tail
                        ELSE [i \in 1..Len(tail) |-> tail[i] - Last(head)]
       IN IF underflow THEN Res2(Dynamic(v.buffer, head), new, TRUE)
          ELSE IF at > Len(v.buffer) THEN Res2(Dynamic(v.buffer, head), new, TRUE)
          ELSE Res2(Dynamic(SubSeq(v.buffer, 1, at), head),
                    Dynamic(SubSeq(v.buffer, at + 1, Len(v.buffer)), new_split),
                    FALSE)

\* Index<usize> for Dynamic: the raw data handed to from_data_unchecked.
index(v, i) ==
  IF i = len(v) THEN Panicked
  ELSE LET r == get(v.split, i)
       IN IF r.panic THEN Panicked ELSE index_into(r.val, v.buffer)

\* Index<Range>, Index<RangeFrom>, Index<RangeTo> for Dynamic.
index_range(v, range) ==
  LET r == get_slice(v.split, range)
  IN IF r.panic THEN Panicked ELSE index_into(r.val, v.buffer)

\* Index<RangeFull> for Dynamic: the whole buffer.
index_full(v) == Ok(v.buffer)

\* -------------------------------------------------------------------- Iter
\* struct Iter { buffer, split, idx }; Iter::new.
Iter(buffer, split, idx) == [buffer |-> buffer, split |-> split, idx |-> idx]

\* Dynamic::iter.
iter(v) == Iter(v.buffer, v.split, 0)

\* Iter::next: the iterator afterwards and the item, Some(raw data) or None.
next(it) ==
  IF it.idx < Len(it.split)
  THEN LET r == get(it.split, it.idx)
           d == IF r.panic THEN Panicked ELSE index_into(r.val, it.buffer)
       IN IF d.panic THEN [it |-> it, item |-> None, panic |-> TRUE]
          ELSE [it |-> Iter(it.buffer, it.split, it.idx + 1), item |-> Some(d.val),
                panic |-> FALSE]
  ELSE [it |-> it, item |-> None, panic |-> FALSE]

\* Clone for Iter: the same buffer and table, a copy of the cursor.
clone(it) == Iter(it.buffer, it.split, it.idx)

\* The iterator after j calls of next, or the panic of one of them.
RECURSIVE advance(_, _)
advance(it, j) ==
  IF j = 0 THEN Ok(it)
  ELSE LET n == next(it) IN IF n.panic THEN Panicked ELSE advance(n.it, j - 1)

\* Iterator::collect::<Vec<_>> on an Iter: every item until the first None.
RECURSIVE collect(_)
collect(it) ==
  LET n == next(it) IN
  IF n.panic THEN Panicked
  ELSE IF n.item = None THEN Ok(<<>>)
  ELSE LET rest == collect(n.it)
       IN IF rest.panic THEN Panicked ELSE Ok(n.item \o rest.val)

\* Iterator::eq on two Iters, as PartialEq for Dynamic uses it: both iterators
\* are advanced in every round, the first difference decides.
RECURSIVE iter_eq(_, _)
iter_eq(x, y) ==
  LET a == next(x)
      b == next(y)
  IN IF a.panic \/ b.panic THEN Panicked
     ELSE IF a.item = None \/ b.item = None THEN Ok(a.item = None /\ b.item = None)
     ELSE IF a.item # b.item THEN Ok(FALSE)
     ELSE iter_eq(a.it, b.it)

\* Hash for Dynamic: what is fed to the hasher, the buffer and then the
\* offset table (each a slice, fed with its length).
hash(v) == <<v.buffer, v.split>>

\* PartialEq for Dynamic.
eq(v, w) == iter_eq(iter(v), iter(w))

\* Ord for [u8] (and for str, which compares as_bytes()): the first differing
\* unit decides, a proper prefix is Less.
RECURSIVE slice_cmp(_, _)
slice_cmp(x, y) ==
  IF x = <<>> THEN (IF y = <<>> THEN "Equal" ELSE "Less")
  ELSE IF y = <<>> THEN "Greater"
  ELSE IF Head(x) < Head(y) THEN "Less"
  ELSE IF Head(x) > Head(y) THEN "Greater"
  ELSE slice_cmp(Tail(x), Tail(y))

\* CStr::to_bytes of the view over data: the bytes before the terminator.
to_bytes(data) == SubSeq(data, 1, Len(data) - 1)

\* T::cmp on two views: [u8] and str compare their units, CStr compares
\* to_bytes().
item_cmp(k, x, y) ==
  IF k = "cstr" THEN slice_cmp(to_bytes(x), to_bytes(y)) ELSE slice_cmp(x, y)

\* Iterator::cmp on two Iters of kind k: the first pair of items that differ
\* decides; the iterator that ends first is Less.
RECURSIVE iter_cmp(_, _, _)
iter_cmp(k, x, y) ==
  LET a == next(x)
      b == next(y)
  IN IF a.panic \/ b.panic THEN Panicked
     ELSE IF a.item = None THEN Ok(IF b.item = None THEN "Equal" ELSE "Less")
     ELSE IF b.item = None THEN Ok("Greater")
     ELSE LET c == item_cmp(k, a.item[1], b.item[1])
          IN IF c # "Equal" THEN Ok(c) ELSE iter_cmp(k, a.it, b.it)

\* An ordering of two Dynamic vectors that compares their raw buffers.
cmp_buffers(k, v, w) == Ok(slice_cmp(v.buffer, w.buffer))

\* Ord for Dynamic.
cmp(k, v, w) == iter_cmp(k, iter(v), iter(w))

\* PartialOrd for Dynamic.
partial_cmp(k, v, w) ==
  LET c == cmp(k, v, w) IN IF c.panic THEN Panicked ELSE Ok(Some(c.val))

\* Extend<&T> for Dynamic: push every item.
RECURSIVE extend(_, _, _)
extend(k, v, items) ==
  IF items = <<>> THEN v ELSE extend(k, push(k, v, Head(items)).vec, Tail(items))

\* FromIterator<&T> for Dynamic: push every item onto Dynamic::new().
from_iter(k, items) == extend(k, new, items)

\* ------------------------------------------------------------------ StaticN
\* The arities the crate generates: Static2 .. Static16.
MinArity == 2
MaxArity == 16

\* $name::new; N is the length of inner.
RECURSIVE static_split(_, _, _)
static_split(k, inner, curr) ==
  IF inner = <<>> THEN <<>>
  ELSE <<curr + str_len(k, Head(inner))>>
         \o static_split(k, Tail(inner), curr + str_len(k, Head(inner)))

static_new(k, inner) ==
  [buffer |-> Flatten([i \in 1..Len(inner) |-> to_data(k, inner[i])]),
   split |-> static_split(k, inner, 0)]

\* DefaultRef::default_ref (extra_default): the default &T of every kind is
\* the empty one: &[], "" and the empty CStr.
default_ref(k) == <<>>

\* The loop `for s in &mut split` of Default for $name, at the i-th entry:
\* the entry is set to acc, then acc grows by len and data is pushed again.
RECURSIVE default_loop(_, _, _, _, _)
default_loop(data, buffer, split, i, acc) ==
  IF i > Len(split) THEN [buffer |-> buffer, split |-> split]
  ELSE default_loop(data, buffer \o data, [split EXCEPT ![i] = acc], i + 1,
                    acc + Len(data))

\* Default for $name, of arity n: buffer starts as data.to_owned(), split as
\* [len; $n].
static_default(k, n) ==
  LET data == to_data(k, default_ref(k))
  IN default_loop(data, data, [i \in 1..n |-> Len(data)], 1, 0)

\* No array built yet.
NoArray == [buffer |-> <<>>, split |-> <<>>]

\* Index<usize> for $name.
static_index(a, i) ==
  IF i = Len(a.split) THEN Panicked
  ELSE LET r == get(a.split, i)
       IN IF r.panic THEN Panicked ELSE index_into(r.val, a.buffer)

\* Index<Range>, Index<RangeFrom>, Index<RangeTo> for $name.
static_index_range(a, range) ==
  LET r == get_slice(a.split, range)
  IN IF r.panic THEN Panicked ELSE index_into(r.val, a.buffer)

\* Index<RangeFull> for $name.
static_index_full(a) == Ok(a.buffer)

\* ------------------------------------------------------ checked construction
\* Result<T, E>.
RetOk(x) == [ok |-> TRUE, val |-> x]
Err(e) == [ok |-> FALSE, err |-> e]

\* enum SplitError.
NotMonotonic(prev, next_idx) ==
  [tag |-> "NotMonotonic", prev |-> prev, next |-> next_idx]
OutOfBounds(idx) == [tag |-> "OutOfBounds", idx |-> idx]

\* The loop over self.inner.windows(2) of check_valid, from the window that
\* starts at position i: the first window whose entries decrease.
RECURSIVE windows(_, _)
windows(split, i) ==
  IF i + 1 > Len(split) THEN None
  ELSE IF split[i] > split[i + 1] THEN Some(NotMonotonic(split[i], split[i + 1]))
  ELSE windows(split, i + 1)

\* check_valid rejecting every adjacent pair that does not increase.
check_valid_strict(split, buf_len) ==
  IF \E i \in 1..(Len(split) - 1) : split[i] >= split[i + 1]
  THEN LET i == CHOOSE i \in 1..(Len(split) - 1) :
                  /\ split[i] >= split[i + 1]
                  /\ \A j \in 1..(i - 1) : split[j] < split[j + 1]
       IN Err(NotMonotonic(split[i], split[i + 1]))
  ELSE IF split # <<>> /\ Last(split) > buf_len THEN Err(OutOfBounds(Last(split)))
  ELSE RetOk(<<>>)

\* Split::check_valid.
check_valid(split, buf_len) ==
  LET win == windows(split, 1) IN
  IF win # None THEN Err(win[1])
  ELSE IF split # <<>> /\ Last(split) > buf_len THEN Err(OutOfBounds(Last(split)))
  ELSE RetOk(<<>>)

\* str::from_utf8 on bytes below 0xE0, the one- and two-byte forms (the
\* inverse of EncodeUtf8): a byte below 0x80 is a code point; a lead byte
\* 0xC2..0xDF takes one continuation byte 0x80..0xBF; a continuation byte
\* alone, a lead byte without continuation and the overlong leads 0xC0, 0xC1
\* are errors.  The bytes explored stay below 0xE0.
RECURSIVE from_utf8(_)
from_utf8(data) ==
  IF data = <<>> THEN RetOk(<<>>)
  ELSE IF Head(data) < 128 THEN
    LET rest == from_utf8(Tail(data))
    IN IF rest.ok THEN RetOk(<<Head(data)>> \o rest.val) ELSE rest
  ELSE IF /\ Head(data) >= 194
          /\ Head(data) <= 223
          /\ Len(data) >= 2
          /\ data[2] >= 128
          /\ data[2] <= 191 THEN
    LET rest == from_utf8(Tail(Tail(data)))
        cp == (Head(data) - 192) * 64 + (data[2] - 128)
    IN IF rest.ok THEN RetOk(<<cp>> \o rest.val) ELSE rest
  ELSE Err("Utf8Error")

\* CStr::from_bytes_with_nul: the data ends with its only NUL.
from_bytes_with_nul(data) ==
  IF /\ data # <<>>
     /\ Last(data) = 0
     /\ \A i \in 1..(Len(data) - 1) : data[i] # 0
  THEN RetOk(SubSeq(data, 1, Len(data) - 1))
  ELSE Err("FromBytesWithNulError")

\* StrLike::from_data: the typed segment over the raw data, or ConvError.
\*   [T]:  Ok(data)        str:  from_utf8(data)
\*   CStr: CStr::from_bytes_with_nul(data)
from_data(k, data) ==
  CASE k = "slice" -> RetOk(data)
    [] k = "str"   -> from_utf8(data)
    [] k = "cstr"  -> from_bytes_with_nul(data)

\* What $name::from_raw yields: the container, or the panic with its message.
Built(a) == [panic |-> FALSE, val |-> a]
SplitInvalid(e) == [panic |-> TRUE, msg |-> "split indices were invalid", err |-> e]
StringInvalid(idx) == [panic |-> TRUE, msg |-> "string was not valid", idx |-> idx]
SlicePanic == [panic |-> TRUE, msg |-> "slice index out of range"]

\* The loop `for idx in 0..$n` of from_raw, from segment idx on: the first
\* segment that cannot be sliced or converted ends it.
RECURSIVE check_strings(_, _, _, _)
check_strings(k, buffer, split, idx) ==
  IF idx >= Len(split) THEN Built([buffer |-> buffer, split |-> split])
  ELSE LET r == get(split, idx)
           data == index_into(r.val, buffer)
       IN IF r.panic \/ data.panic THEN SlicePanic
          ELSE IF ~from_data(k, data.val).ok THEN StringInvalid(idx)
          ELSE check_strings(k, buffer, split, idx + 1)

\* from_raw without the conversion of the segments.
from_raw_table_only(k, buffer, split) ==
  LET check == check_valid(split, Len(buffer))
  IN IF ~check.ok THEN SplitInvalid(check.err)
     ELSE Built([buffer |-> buffer, split |-> split])

\* $name::from_raw; N is the length of split.
static_from_raw(k, buffer, split) ==
  LET check == check_valid(split, Len(buffer))
  IN IF ~check.ok THEN SplitInvalid(check.err)
     ELSE check_strings(k, buffer, split, 0)

\* ------------------------------------------------------- the state machine
\* kind:       the segment kind T of the containers
\* vec, other: two Dynamic<T> values (self, and the argument of append / the
\*             vector split_off returns)
\* array:      a StaticN<T> value, NoArray until one is built
\* list:       a reference Vec<&T> of typed segments, driven in lockstep with
\*             vec by the refinement specifications; the input list of the
\*             construction specification
\* list_ret:   what the last operation on the reference list returned
\* op, ret:    the last operation applied that reads or writes the contents,
\*             with its arguments, and its result
\* panicked:   the last operation panicked; the run ends there
VARIABLES kind, vec, other, array, list, list_ret, op, ret, panicked

vars == <<kind, vec, other, array, list, list_ret, op, ret, panicked>>

Op(name, arg) == [name |-> name, arg |-> arg]

\* let mut vec = Dynamic::new(); let mut other = Dynamic::new();
Init ==
  /\ kind \in Kinds
  /\ vec = new
  /\ other = new
  /\ array = NoArray
  /\ list = <<>>
  /\ list_ret = None
  /\ op = Op("new", <<>>)
  /\ ret = None
  /\ panicked = FALSE

\* An operation on vec alone, with outcome r.
Step1(name, arg, r) ==
  /\ op' = Op(name, arg)
  /\ vec' = r.vec
  /\ ret' = r.ret
  /\ panicked' = r.panic
  /\ UNCHANGED <<kind, other, array, list, list_ret>>

\* An operation on vec and other, with outcome r.
Step2(name, arg, r) ==
  /\ op' = Op(name, arg)
  /\ vec' = r.vec
  /\ other' = r.other
  /\ ret' = None
  /\ panicked' = r.panic
  /\ UNCHANGED <<kind, array, list, list_ret>>

\* The pushes explored keep the vector within MaxSegs segments and its
\* buffer within MaxBuf units.
Fits(t) ==
  /\ len(vec) < MaxSegs
  /\ Len(vec.buffer) + Len(to_data(kind, t)) <= MaxBuf

\* vec.push(t)
Push ==
  /\ ~panicked
  /\ \E t \in Segs(kind) : Fits(t) /\ Step1("push", t, push(kind, vec, t))

\* vec.pop()
Pop ==
  /\ ~panicked
  /\ Step1("pop", <<>>, pop(vec))

\* vec.pop_off()
PopOff ==
  /\ ~panicked
  /\ Step1("pop_off", <<>>, pop_off(vec))

\* vec.truncate(n)
Truncate ==
  /\ ~panicked
  /\ \E n \in 0..MaxSegs : Step1("truncate", n, truncate(vec, n))

\* vec.clear()
Clear ==
  /\ ~panicked
  /\ Step1("clear", <<>>, clear(vec))

\* A capacity operation: it is not recorded in op, since it returns nothing
\* and leaves the contents alone.
Capacity(r) ==
  /\ vec' = r.vec
  /\ panicked' = r.panic
  /\ UNCHANGED <<kind, other, array, list, list_ret, op, ret>>

\* vec.reserve(additional, bytes)
Reserve ==
  /\ ~panicked
  /\ Capacity(reserve(vec))

\* vec.reserve_exact(additional, bytes)
ReserveExact ==
  /\ ~panicked
  /\ Capacity(reserve_exact(vec))

\* vec.shrink_to_fit()
ShrinkToFit ==
  /\ ~panicked
  /\ Capacity(shrink_to_fit(vec))

\* vec.append(&mut other)
AppendOther ==
  /\ ~panicked
  /\ len(vec) + len(other) <= MaxSegs
  /\ Len(vec.buffer) + Len(other.buffer) <= MaxBuf
  /\ Step2("append", <<>>, append(vec, other))

\* other = vec.split_off(at)
SplitOff ==
  /\ ~panicked
  /\ \E at \in 0..MaxSegs : Step2("split_off", at, split_off(vec, at))

Next ==
  \/ Push
  \/ Pop
  \/ PopOff
  \/ Truncate
  \/ Clear
  \/ Reserve
  \/ ReserveExact
  \/ ShrinkToFit
  \/ AppendOther
  \/ SplitOff

Spec == Init /\ [][Next]_vars

\* ------------------------------------------ vec against a reference list
\* An operation on vec with outcome r, while the same operation on the
\* reference list leaves it as l and returns lr.
RefStep(name, arg, r, l, lr) ==
  /\ op' = Op(name, arg)
  /\ vec' = r.vec
  /\ ret' = r.ret
  /\ panicked' = r.panic
  /\ list' = l
  /\ list_ret' = lr
  /\ UNCHANGED <<kind, other, array>>

\* The pushes explored against the reference list.
RefFits(t) ==
  /\ len(vec) < MaxRefSegs
  /\ Len(vec.buffer) + Len(to_data(kind, t)) <= MaxRefBuf

\* vec.push(t); list.push(t)
RefPush ==
  /\ ~panicked
  /\ \E t \in Segs(kind) :
       RefFits(t) /\ RefStep("push", t, push(kind, vec, t), Append(list, t), None)

\* vec.pop(); list.pop()
RefPop ==
  /\ ~panicked
  /\ RefStep("pop", <<>>, pop(vec),
             IF list = <<>> THEN list ELSE Front(list),
             IF list = <<>> THEN None ELSE Some(Last(list)))

\* vec.pop_off(); list.pop()
RefPopOff ==
  /\ ~panicked
  /\ RefStep("pop_off", <<>>, pop_off(vec),
             IF list = <<>> THEN list ELSE Front(list),
             IF list = <<>> THEN None ELSE Some(Last(list)))

NextPushPop == RefPush \/ RefPop

\* Only push and pop, from Dynamic::new().
SpecPushPop == Init /\ [][NextPushPop]_vars

NextPushPopOff == RefPush \/ RefPopOff

\* Only push and pop_off, from Dynamic::new().
SpecPushPopOff == Init /\ [][NextPushPopOff]_vars

\* ------------------------------------------------------------ construction
\* The input lists of the constructors.
Lists(k) == SeqsUpTo(Segs(k), MaxList)

\* let list: &[&T] = ...;
InitBuild ==
  /\ kind \in Kinds
  /\ list \in Lists(kind)
  /\ vec = new
  /\ other = new
  /\ array = NoArray
  /\ list_ret = None
  /\ op = Op("new", <<>>)
  /\ ret = None
  /\ panicked = FALSE

\* let vec = list.iter().collect::<Dynamic<T>>();
Collect ==
  /\ op.name = "new"
  /\ vec' = from_iter(kind, list)
  /\ op' = Op("from_iter", <<>>)
  /\ UNCHANGED <<kind, other, array, list, list_ret, ret, panicked>>

\* let mut other = Dynamic::new(); other.extend(list.iter());
Extend ==
  /\ op.name = "from_iter"
  /\ other' = extend(kind, other, list)
  /\ op' = Op("extend", <<>>)
  /\ UNCHANGED <<kind, vec, array, list, list_ret, ret, panicked>>

\* let array = StaticN::new(list), for a list of N segments.
StaticNew ==
  /\ op.name = "extend"
  /\ Len(list) \in MinArity..MaxArity
  /\ Len(list) <= MaxN
  /\ array' = static_new(kind, list)
  /\ op' = Op("Static::new", <<>>)
  /\ UNCHANGED <<kind, vec, other, list, list_ret, ret, panicked>>

NextBuild == Collect \/ Extend \/ StaticNew

\* The constructors applied to every input list.
SpecBuild == InitBuild /\ [][NextBuild]_vars

\* ------------------------------------------------- comparing two containers
\* let other = rhs.iter().collect::<Dynamic<T>>(); rhs is kept as the
\* argument of the operation.
CollectOther ==
  /\ op.name = "from_iter"
  /\ \E rhs \in Lists(kind) :
       /\ other' = from_iter(kind, rhs)
       /\ op' = Op("collect_other", rhs)
  /\ UNCHANGED <<kind, vec, array, list, list_ret, ret, panicked>>

\* The result r of comparing vec with other by the operation called name.
Compare(name, r) ==
  /\ op' = Op(name, op.arg)
  /\ ret' = r
  /\ panicked' = r.panic
  /\ UNCHANGED <<kind, vec, other, array, list, list_ret>>

\* vec.cmp(&other)
Cmp ==
  /\ op.name = "collect_other"
  /\ Compare("cmp", cmp(kind, vec, other))

\* vec.partial_cmp(&other)
PartialCmp ==
  /\ op.name = "collect_other"
  /\ Compare("partial_cmp", partial_cmp(kind, vec, other))

\* vec == other
Eq ==
  /\ op.name = "collect_other"
  /\ Compare("eq", eq(vec, other))

NextCmp == Collect \/ CollectOther \/ Cmp \/ PartialCmp \/ Eq

\* Two vectors collected from every pair of lists, then compared.
SpecCmp == InitBuild /\ [][NextCmp]_vars

\* ------------------------------------------------ construction from raw parts
\* The raw units of the buffers handed to from_raw: elements of a [u8]; for
\* str the byte of 'a' and the two bytes of U+00E9, valid only as a pair in
\* that order; for CStr the NUL and one other byte.
RawUnits(k) ==
  CASE k = "slice" -> {1, 2}
    [] k = "str"   -> {97, 195, 169}
    [] k = "cstr"  -> {0, 1}

\* The raw buffers, and the offset tables of n entries.
RawBuffers(k) == SeqsUpTo(RawUnits(k), MaxRaw)
Tables(n) == [1..n -> 0..MaxOff]

\* Nothing built yet, for every kind.
InitRaw ==
  /\ kind \in Kinds
  /\ list = <<>>
  /\ vec = new
  /\ other = new
  /\ array = NoArray
  /\ list_ret = None
  /\ op = Op("new", <<>>)
  /\ ret = None
  /\ panicked = FALSE

\* Split::new(&split).check_valid(buf_len)
CheckValid ==
  /\ op.name = "new"
  /\ \E n \in 0..MaxN : \E split \in Tables(n) : \E buf_len \in 0..MaxOff :
       /\ op' = Op("check_valid", [split |-> split, buf_len |-> buf_len])
       /\ ret' = check_valid(split, buf_len)
  /\ UNCHANGED <<kind, vec, other, array, list, list_ret, panicked>>

\* array = StaticN::from_raw(buffer, split), N the length of split
FromRaw ==
  /\ op.name = "new"
  /\ \E n \in MinArity..MaxArity : \E buffer \in RawBuffers(kind) :
       /\ n <= MaxN
       /\ \E split \in Tables(n) :
            LET r == static_from_raw(kind, buffer, split) IN
            /\ op' = Op("from_raw", [buffer |-> buffer, split |-> split])
            /\ ret' = r
            /\ array' = IF r.panic THEN array ELSE r.val
            /\ panicked' = r.panic
  /\ UNCHANGED <<kind, vec, other, list, list_ret>>

\* array = StaticN::default(), N = n
StaticDefault ==
  /\ op.name = "new"
  /\ \E n \in MinArity..MaxArity :
       /\ n <= MaxN
       /\ array' = static_default(kind, n)
       /\ op' = Op("default", n)
  /\ UNCHANGED <<kind, vec, other, list, list_ret, ret, panicked>>

\* array = StaticN::new(inner), N the length of inner
NewArray ==
  /\ op.name = "new"
  /\ \E n \in MinArity..MaxArity :
       /\ n <= MaxN
       /\ \E inner \in [1..n -> Segs(kind)] :
            /\ array' = static_new(kind, inner)
            /\ op' = Op("Static::new", inner)
  /\ UNCHANGED <<kind, vec, other, list, list_ret, ret, panicked>>

NextRaw == CheckValid \/ FromRaw \/ StaticDefault \/ NewArray

\* One call of check_valid on every offset table, or of one of the safe
\* constructors of StaticN on every input.
SpecRaw == InitRaw /\ [][NextRaw]_vars

\* ------------------------------------------------------------------ claims
\* The raw data of every segment of a list of typed segments.
DataOf(k, l) == [i \in 1..Len(l) |-> to_data(k, l[i])]

\* The raw length of the first i segments of a list.
RawLen(k, l, i) == Len(Flatten(DataOf(k, SubSeq(l, 1, i))))

\* vec holds exactly the segments of l: the count, every vec[i], the iteration.
Holds(v, k, l) ==
  /\ len(v) = Len(l)
  /\ \A i \in 0..(Len(l) - 1) : index(v, i) = Ok(to_data(k, l[i + 1]))
  /\ collect(iter(v)) = Ok(DataOf(k, l))

\* C1: in every state reached from Dynamic::new() by push, pop, pop_off,
\* truncate, append, split_off, clear, reserve, reserve_exact and
\* shrink_to_fit, the last entry of the offset table equals the buffer length,
\* and the buffer is empty when the offset table is empty.
C1_LastOffsetIsBufferLen ==
  ~panicked =>
    IF vec.split = <<>> THEN vec.buffer = <<>>
    ELSE Last(vec.split) = Len(vec.buffer)

\* C2: after any sequence of push and pop from Dynamic::new(), the length of
\* the vector, every vec[i] and the iterated segments are those of the
\* reference list (push appends, pop removes the last element).
C2_PushPopRefinesList == ~panicked /\ Holds(vec, kind, list)

\* C3: the Dynamic collected from a list S, and the empty Dynamic extended
\* with S, have len() = |S| and iterate to exactly the elements of S in order;
\* the two vectors compare equal.
C3_CollectExtendRoundTrip ==
  /\ op.name # "new" => Holds(vec, kind, list)
  /\ op.name \in {"extend", "Static::new"} =>
       /\ Holds(other, kind, list)
       /\ eq(other, vec) = Ok(TRUE)

C3_Witness ==
  /\ op.name = "extend"
  /\ Len(list) = 3
  /\ list[1] # list[2]
  /\ list[3] # <<>>
  /\ eq(other, vec) = Ok(TRUE)

\* C4: for StaticN::new(S) the buffer is the concatenation of the raw bytes
\* of the N segments, offset i is the sum of the raw byte lengths of the
\* segments 0..=i, and array[i] equals S[i] for every i < N.
C4_StaticNewLayout ==
  op.name = "Static::new" =>
    /\ array.buffer = Flatten(DataOf(kind, list))
    /\ \A i \in 0..(Len(list) - 1) :
         /\ array.split[i + 1] = RawLen(kind, list, i + 1)
         /\ static_index(array, i) = Ok(to_data(kind, list[i + 1]))

\* The concatenation of the raw data of S[lo], ..., S[hi-1].
Concat(k, l, lo, hi) == Flatten(DataOf(k, SubSeq(l, lo + 1, hi)))

\* C5: for a concatenation-safe kind and a container built from a list S of n
\* segments (Dynamic by collect, StaticN by new), container[lo..hi] is the
\* concatenation of S[lo], ..., S[hi-1] for all 0 <= lo <= hi <= n;
\* container[lo..] is container[lo..n], container[..hi] is container[0..hi]
\* and container[..] is container[0..n].
C5_RangeIsConcatenation ==
  LET n == Len(list) IN
  /\ (kind \in DataConcat /\ op.name # "new") =>
       /\ \A lo \in 0..n : \A hi \in lo..n :
            index_range(vec, FromRange(lo, hi)) = Ok(Concat(kind, list, lo, hi))
       /\ \A lo \in 0..n :
            index_range(vec, FromRangeFrom(lo)) = index_range(vec, FromRange(lo, n))
       /\ \A hi \in 0..n :
            index_range(vec, FromRangeTo(hi)) = index_range(vec, FromRange(0, hi))
       /\ index_full(vec) = index_range(vec, FromRange(0, n))
  /\ (kind \in DataConcat /\ op.name = "Static::new") =>
       /\ \A lo \in 0..n : \A hi \in lo..n :
            static_index_range(array, FromRange(lo, hi))
              = Ok(Concat(kind, list, lo, hi))
       /\ \A lo \in 0..n :
            static_index_range(array, FromRangeFrom(lo))
              = static_index_range(array, FromRange(lo, n))
       /\ \A hi \in 0..n :
            static_index_range(array, FromRangeTo(hi))
              = static_index_range(array, FromRange(0, hi))
       /\ static_index_full(array) = static_index_range(array, FromRange(0, n))

C5_Witness ==
  /\ kind \in DataConcat
  /\ op.name = "Static::new"
  /\ Len(list) = 3
  /\ \A i \in 1..3 : list[i] # <<>>
  /\ static_index_range(array, FromRange(1, 3)) = index_range(vec, FromRange(1, 3))
  /\ index_range(vec, FromRange(1, 3)) = Ok(Concat(kind, list, 1, 3))

\* C6: after any sequence of push and pop_off from Dynamic::new(), each
\* pop_off returned an owned copy of the element the reference stack popped
\* (None when the stack was empty), and the segments of the vector are the
\* contents of the reference stack.
C6_PopOffRefinesStack ==
  /\ ~panicked
  /\ Holds(vec, kind, list)
  /\ op.name = "pop_off" =>
       ret = IF list_ret = None THEN None ELSE Some(to_data(kind, list_ret[1]))

C6_Witness ==
  /\ op.name = "pop_off"
  /\ ret # None
  /\ Len(ret[1]) = 2
  /\ len(vec) = 2

\* C7: for any reachable vector v and any segment x, v.push(x) followed by
\* v.pop() leaves a vector that compares equal to v as it was before.
C7_PushPopInverse ==
  ~panicked =>
    \A t \in Segs(kind) : eq(pop(push(kind, vec, t).vec).vec, vec) = Ok(TRUE)

\* C8: pop returns true exactly when the vector held a segment before the
\* call, and then len() decreases by exactly one; on an empty vector it
\* returns false and leaves the offset table and the buffer unchanged.
C8_PopResult ==
  [][Pop =>
       /\ ~panicked'
       /\ ret' = (len(vec) > 0)
       /\ len(vec) > 0 => len(vec') = len(vec) - 1
       /\ len(vec) = 0 => vec' = vec]_vars

C8_Witness ==
  /\ op.name = "pop"
  /\ ret = TRUE
  /\ len(vec) = 1

\* C9: truncate(len) with len greater than or equal to the segment count
\* returns normally and leaves the offset table and the buffer unchanged.
C9_TruncateNoOp ==
  [][(Truncate /\ op'.arg >= len(vec)) => (~panicked' /\ vec' = vec)]_vars

\* C10: truncate(len) with len smaller than the segment count keeps exactly
\* the first len entries of the offset table and truncates the buffer to the
\* end offset of segment len-1 (to 0 when len = 0).
C10_TruncateKeepsPrefix ==
  [][(Truncate /\ op'.arg < len(vec)) =>
       LET n == op'.arg IN
       /\ ~panicked'
       /\ vec'.split = SubSeq(vec.split, 1, n)
       /\ vec'.buffer = SubSeq(vec.buffer, 1, IF n = 0 THEN 0 ELSE vec.split[n])]_vars

\* The segment sequence of a vector, as its iteration yields it.
Segments(v) == collect(iter(v))

\* C11: for two reachable Dynamic vectors a and b with segment sequences A
\* and B, a.append(&mut b) returns normally, leaves a with the segments of A
\* followed by those of B (by iteration and by every a[i]), and leaves b with
\* no segment and an empty buffer.
C11_AppendConcatenates ==
  [][(AppendOther /\ ~Segments(vec).panic /\ ~Segments(other).panic) =>
       LET AB == Segments(vec).val \o Segments(other).val IN
       /\ ~panicked'
       /\ len(vec') = Len(AB)
       /\ Segments(vec') = Ok(AB)
       /\ \A i \in 0..(Len(AB) - 1) : index(vec', i) = Ok(AB[i + 1])
       /\ len(other') = 0
       /\ other'.buffer = <<>>]_vars

\* C12: for a Dynamic vector with segments S (n of them) and 0 <= at <= n,
\* t = v.split_off(at) returns normally, leaves v with the segments S[0..at)
\* and t with the segments S[at..n), t's offsets counted from 0, and each
\* buffer holding exactly the bytes of its own segments.
C12_SplitOffPartitions ==
  [][(SplitOff /\ op'.arg <= len(vec) /\ ~Segments(vec).panic) =>
       LET S == Segments(vec).val
           at == op'.arg
           head == SubSeq(S, 1, at)
           tail == SubSeq(S, at + 1, Len(S))
       IN /\ ~panicked'
          /\ Segments(vec') = Ok(head)
          /\ Segments(other') = Ok(tail)
          /\ vec'.buffer = Flatten(head)
          /\ other'.buffer = Flatten(tail)
          /\ other'.split = [i \in 1..Len(tail) |-> Len(Flatten(SubSeq(tail, 1, i)))]]_vars

\* C13: for a Dynamic vector a and 0 <= k <= a.len(), b = a.split_off(k)
\* followed by a.append(&mut b) returns normally and leaves a elementwise
\* equal to the original a.
C13_SplitOffAppendInverse ==
  (~panicked /\ ~Segments(vec).panic) =>
    \A k \in 0..len(vec) :
      LET s == split_off(vec, k)
          a == append(s.vec, s.other)
      IN /\ ~s.panic
         /\ ~a.panic
         /\ eq(a.vec, vec) = Ok(TRUE)
         /\ Segments(a.vec) = Segments(vec)

\* C14: indexing a container by one position i panics whenever i is at or
\* above its segment count (len() for Dynamic, index 0 of the empty Dynamic
\* included), and returns a view for every i below the segment count.
C14_IndexPanicsExactlyOutOfBounds ==
  ~panicked =>
    \A v \in {vec, other} : \A i \in 0..(len(v) + 2) :
      index(v, i).panic <=> (i >= len(v))

\* C15: range-indexing a container of n segments with a start or an end bound
\* above n panics: container[lo..], container[..hi] and container[lo..hi]
\* return no view when lo > n or hi > n.
C15_RangeOutOfBoundsPanics ==
  LET n == Len(list)
      Bad(lo, hi) == lo > n \/ hi > n
  IN
  /\ (kind \in DataConcat /\ op.name # "new") =>
       /\ \A lo \in 0..(n + 2) : \A hi \in 0..(n + 2) :
            Bad(lo, hi) => index_range(vec, FromRange(lo, hi)).panic
       /\ \A lo \in (n + 1)..(n + 2) : index_range(vec, FromRangeFrom(lo)).panic
       /\ \A hi \in (n + 1)..(n + 2) : index_range(vec, FromRangeTo(hi)).panic
  /\ (kind \in DataConcat /\ op.name = "Static::new") =>
       /\ \A lo \in 0..(n + 2) : \A hi \in 0..(n + 2) :
            Bad(lo, hi) => static_index_range(array, FromRange(lo, hi)).panic
       /\ \A lo \in (n + 1)..(n + 2) :
            static_index_range(array, FromRangeFrom(lo)).panic
       /\ \A hi \in (n + 1)..(n + 2) :
            static_index_range(array, FromRangeTo(hi)).panic

C15_Witness ==
  /\ kind \in DataConcat
  /\ op.name = "Static::new"
  /\ Len(list) = 2
  /\ len(vec) = 2
  /\ vec.buffer # <<>>
  /\ index_range(vec, FromRange(0, 3)).panic
  /\ index_range(vec, FromRangeFrom(3)).panic
  /\ static_index_range(array, FromRangeTo(3)).panic
  /\ ~static_index_range(array, FromRange(0, 2)).panic

\* C16: range-indexing a container of n segments with an inverted range,
\* n >= lo > hi, panics: container[lo..hi] returns no view.
C16_InvertedRangePanics ==
  LET n == Len(list) IN
  /\ (kind \in DataConcat /\ op.name # "new") =>
       \A lo \in 0..n : \A hi \in 0..n :
         lo > hi => index_range(vec, FromRange(lo, hi)).panic
  /\ (kind \in DataConcat /\ op.name = "Static::new") =>
       \A lo \in 0..n : \A hi \in 0..n :
         lo > hi => static_index_range(array, FromRange(lo, hi)).panic

\* C17: for every Dynamic vector reached through the public operations and
\* every 0 <= k <= len(), vec[k..k] is the empty view.
C17_EmptyRangeIsEmpty ==
  (~panicked /\ kind \in DataConcat) =>
    \A k \in 0..len(vec) : index_range(vec, FromRange(k, k)) = Ok(<<>>)

\* The lexicographic comparison of two sequences under the strict order Lt of
\* their elements: the first position where they differ decides, and a proper
\* prefix is Less.
LexCmp(x, y, Lt(_, _)) ==
  LET m == IF Len(x) < Len(y) THEN Len(x) ELSE Len(y)
      d == {i \in 1..m : x[i] # y[i]}
  IN IF x = y THEN "Equal"
     ELSE IF d = {} THEN (IF Len(x) < Len(y) THEN "Less" ELSE "Greater")
     ELSE LET i == CHOOSE i \in d : \A j \in d : i <= j
          IN IF Lt(x[i], y[i]) THEN "Less" ELSE "Greater"

\* The order of the units of a segment, and of typed segments.
UnitLt(a, b) == a < b
SegLt(s, t) == LexCmp(s, t, UnitLt) = "Less"

\* C18: equality and ordering of containers are those of their segment
\* sequences compared lexicographically, a proper prefix first, and not of
\* their raw buffers: for the containers of two segment lists A and B, cmp is
\* the lexicographic comparison of A with B, partial_cmp is Some of it, and
\* == holds exactly when A = B.
C18_OrderIsLexicographic ==
  /\ op.name = "cmp" => ret = Ok(LexCmp(list, op.arg, SegLt))
  /\ op.name = "partial_cmp" => ret = Ok(Some(LexCmp(list, op.arg, SegLt)))
  /\ op.name = "eq" => ret = Ok(list = op.arg)

C18_Witness ==
  /\ op.name = "cmp"
  /\ list # op.arg
  /\ vec.buffer = other.buffer
  /\ Len(list) = 2
  /\ ret = Ok("Less")

\* A table is non-decreasing.
NonDecreasing(t) == \A i \in 1..(Len(t) - 1) : t[i] <= t[i + 1]

\* C19: Split::check_valid(buf_len) returns Ok exactly when the table is
\* non-decreasing and its last entry, if any, is at most buf_len; otherwise
\* it returns NotMonotonic(prev, next) for the first adjacent pair with
\* prev > next or, when the table is non-decreasing, OutOfBounds(last).  So a
\* table of cumulative sums validates against its own last entry and the
\* empty table against any buf_len.
C19_CheckValid ==
  op.name = "check_valid" =>
    LET t == op.arg.split
        b == op.arg.buf_len
        bad == {i \in 1..(Len(t) - 1) : t[i] > t[i + 1]}
    IN /\ ret.ok <=> (NonDecreasing(t) /\ (t = <<>> \/ Last(t) <= b))
       /\ bad # {} =>
            LET i == CHOOSE i \in bad : \A j \in bad : i <= j
            IN ret = Err(NotMonotonic(t[i], t[i + 1]))
       /\ (bad = {} /\ t # <<>> /\ Last(t) > b) => ret = Err(OutOfBounds(Last(t)))
       /\ (NonDecreasing(t) /\ t # <<>> /\ b = Last(t)) => ret = RetOk(<<>>)
       /\ t = <<>> => ret = RetOk(<<>>)

C19_Witness ==
  /\ op.name = "check_valid"
  /\ Len(op.arg.split) = 3
  /\ op.arg.split[1] = op.arg.split[2]
  /\ op.arg.split[3] = op.arg.buf_len
  /\ op.arg.buf_len > op.arg.split[1]
  /\ ret = RetOk(<<>>)

\* C20: the checked StaticN::from_raw(buffer, offsets) returns a container
\* only when the offset table passes check_valid against the buffer length
\* and each of the N byte ranges converts by from_data; otherwise it panics
\* and produces no container.  The offset table is checked before any
\* segment, and the panic names the lowest segment index that fails.
C20_FromRawChecks ==
  op.name = "from_raw" =>
    LET b == op.arg.buffer
        t == op.arg.split
        valid == NonDecreasing(t) /\ Last(t) <= Len(b)
        bytes(i) == SubSeq(b, (IF i = 0 THEN 0 ELSE t[i]) + 1, t[i + 1])
        failing == {i \in 0..(Len(t) - 1) : ~from_data(kind, bytes(i)).ok}
    IN /\ ~ret.panic <=> (valid /\ failing = {})
       /\ ~ret.panic => (ret.val = [buffer |-> b, split |-> t] /\ array = ret.val)
       /\ ret.panic => (array = NoArray /\ panicked)
       /\ ~valid => ret = SplitInvalid(check_valid(t, Len(b)).err)
       /\ (valid /\ failing # {}) =>
            ret = StringInvalid(CHOOSE i \in failing : \A j \in failing : i <= j)

C20_Witness ==
  /\ op.name = "from_raw"
  /\ kind # "slice"
  /\ Len(op.arg.split) = 3
  /\ ret = StringInvalid(1)
  /\ ~from_data(kind, SubSeq(op.arg.buffer, op.arg.split[2] + 1, op.arg.split[3])).ok

\* C21: StaticN::default() yields an array whose N segments all equal the
\* default value of the segment kind, whatever the raw length L >= 0 of that
\* default: array[i] is the default for every i < N.
C21_DefaultSegments ==
  op.name = "default" =>
    \A i \in 0..(op.arg - 1) :
      static_index(array, i) = Ok(to_data(kind, default_ref(kind)))

\* C22: the iterator iter() gives on a container of n segments yields exactly
\* n items, the k-th equal to container[k], and None on every call after
\* them; its cursor never exceeds n; a clone taken after k calls yields the
\* items from the k-th on and leaves the original where it was.
C22_IterationExact ==
  ~panicked =>
    \A v \in {vec, other} :
      LET n == len(v) IN
      /\ Segments(v) = Ok([i \in 1..n |-> index(v, i - 1).val])
      /\ \A k \in 0..(n + 2) :
           LET a == advance(iter(v), k) IN
           /\ ~a.panic
           /\ a.val.idx = (IF k < n THEN k ELSE n)
           /\ next(a.val) = (IF k < n
                             THEN [it |-> Iter(v.buffer, v.split, k + 1),
                                   item |-> Some(index(v, k).val), panic |-> FALSE]
                             ELSE [it |-> a.val, item |-> None, panic |-> FALSE])
           /\ collect(clone(a.val)) = Ok([i \in 1..(n - a.val.idx) |->
                                            index(v, a.val.idx + i - 1).val])
           /\ advance(clone(a.val), 1).val.idx = (IF k < n THEN k + 1 ELSE n)

\* C23: pop on a non-empty Dynamic vector removes exactly the last entry of
\* the offset table and truncates the buffer to the end offset of the new
\* last segment (to 0 when none remains), so that afterwards the buffer
\* length equals the new last offset.
C23_PopTruncatesBuffer ==
  [][(Pop /\ len(vec) > 0) =>
       LET prev == IF Len(vec.split) = 1 THEN 0 ELSE vec.split[Len(vec.split) - 1]
       IN /\ ~panicked'
          /\ vec'.split = Front(vec.split)
          /\ vec'.buffer = SubSeq(vec.buffer, 1, prev)
          /\ Len(vec'.buffer) = prev]_vars

\* C24: in every state of a Dynamic vector reached from Dynamic::new() by
\* push, pop, pop_off, truncate, append, split_off and clear, the tail that
\* split_off returns included, the offset table is non-decreasing.
C24_OffsetsNonDecreasing ==
  /\ NonDecreasing(vec.split)
  /\ NonDecreasing(other.split)

C24_Witness ==
  /\ op.name = "split_off"
  /\ ~panicked
  /\ Len(vec.split) = 1
  /\ vec.split[1] > 0
  /\ Len(other.split) = 1
  /\ other.split[1] > 0

\* The views array[0], ..., array[N-1], when all of them can be read.
StaticSegments(a) == [i \in 1..Len(a.split) |-> static_index(a, i - 1)]

\* C25: every array produced by a safe constructor (new, default, checked
\* from_raw) has a non-decreasing offset table whose last entry equals the
\* buffer length, so that array[..] is the concatenation of array[0], ...,
\* array[N-1].
C25_StaticCoversBuffer ==
  (op.name \in {"Static::new", "default", "from_raw"} /\ ~panicked) =>
    /\ NonDecreasing(array.split)
    /\ Last(array.split) = Len(array.buffer)
    /\ \A i \in 1..Len(array.split) : ~StaticSegments(array)[i].panic
    /\ static_index_full(array)
         = Ok(Flatten([i \in 1..Len(array.split) |-> StaticSegments(array)[i].val]))

\* C26: hashing is consistent with equality: for two Dynamic vectors a and b
\* reached through the public operations, a == b implies that the same data
\* (buffer and offset table) is fed to the hasher for both.
C26_HashConsistentWithEq ==
  ~panicked =>
    \A a \in {vec, other, new} : \A b \in {vec, other, new} :
      eq(a, b) = Ok(TRUE) => hash(a) = hash(b)

====
